---------------------------- MODULE Spec2Model ----------------------------
(***************************************************************************)
(* Gemini code autocomplete: the debounce / cancel / accept rules of the   *)
(* two front ends of the repository.                                       *)
(*                                                                         *)
(*   standalone : the React component App (src/App.tsx) with its           *)
(*                completion client getCodeSuggestions                     *)
(*                (src/components/Editor.tsx, lines 66-115)                *)
(*   embedded   : the Acode plugin GeminiAutocompletePlugin (src/main.js)  *)
(*                                                                         *)
(* Both run on a single-threaded event loop, so every event handler, timer *)
(* callback and promise continuation is one atomic action.  A behaviour    *)
(* runs one of the two front ends; `variant` says which.                   *)
(*                                                                         *)
(* Text is a sequence of one-character strings, so that trimming, length   *)
(* and concatenation are computed and not assumed.                         *)
(***************************************************************************)
EXTENDS Integers, Sequences, FiniteSets, TLC

(***************************************************************************)
(* Bounds of the model.                                                    *)
(***************************************************************************)
\* text changes of the standalone editor after the mount (each runs the effect)
MaxCycles == 2
\* invocations of the plugin's completion provider
MaxInvocations == 3
\* further invocations once destroy() has been called, beyond MaxInvocations
MaxAfterDestroy == 1
(***************************************************************************)
(* Program constants.                                                      *)
(***************************************************************************)
\* App.tsx:16   currentCode.trim().length < 3
MinLenStandalone == 3
\* main.js:112  codeBeforeCursor.trim().length < 10
MinLenEmbedded == 10
\* main.js:125  substring(0, 50)
CaptionLen == 50
\* main.js:127  score: 1000
CandidateScore == 1000

(***************************************************************************)
(* Text helpers (String.prototype.trim / trimStart / split / substring).   *)
(***************************************************************************)
WhiteSpace == {" ", "\n", "\t"}

RECURSIVE TrimStart(_)
TrimStart(s) ==
    IF s = <<>> THEN <<>>
    ELSE IF Head(s) \in WhiteSpace THEN TrimStart(Tail(s)) ELSE s

RECURSIVE TrimEnd(_)
TrimEnd(s) ==
    IF s = <<>> THEN <<>>
    ELSE IF s[Len(s)] \in WhiteSpace THEN TrimEnd(SubSeq(s, 1, Len(s) - 1)) ELSE s

Trim(s) == TrimEnd(TrimStart(s))

\* s.split('\n')[0]
RECURSIVE FirstLine(_)
FirstLine(s) ==
    IF s = <<>> \/ Head(s) = "\n" THEN <<>>
    ELSE <<Head(s)>> \o FirstLine(Tail(s))

\* s.substring(0, n)
Substring0(s, n) == SubSeq(s, 1, IF Len(s) < n THEN Len(s) ELSE n)

\* message.includes(fragment): a message is a sequence of fragments
Includes_StartsWith(message, fragment) == message # <<>> /\ message[1] = fragment
Includes(message, fragment) == \E i \in DOMAIN message : message[i] = fragment

(***************************************************************************)
(* Inputs.                                                                 *)
(***************************************************************************)
\* App.tsx:8  useState('function greet(name) {\n  ')
InitialCode ==
    <<"f", "u", "n", "c", "t", "i", "o", "n", " ", "g", "r", "e", "e", "t",
      "(", "n", "a", "m", "e", ")", " ", "{", "\n", " ", " ">>

\* values the user may leave in the textarea: empty, below the guard, below
\* the guard only once trimmed, and at the guard
EditTexts ==
    { <<>>, <<"a", "b">>, <<" ", "a", "b", " ">>, <<"a", "b", "c">> }

\* text before the cursor at a provider invocation: below the guard, below
\* the guard only once trimmed (10 characters, 9 trimmed), and at the guard
InvokeTexts ==
    { <<"a", "b">>,
      <<"c", "o", "n", "s", "t", " ", "x", " ", "=", " ">>,
      <<"c", "o", "n", "s", "t", " ", "y", "=", "1", ";">> }

\* response.text of the remote service: absent, empty, blank, padded, plain
NoText == [present |-> FALSE, text |-> <<>>]
Text(t) == [present |-> TRUE, text |-> t]
RawTexts ==
    { NoText, Text(<<>>), Text(<<" ">>), Text(<<" ", "x", " ">>), Text(<<"y", "\n", "z">>) }

\* errors the transport may reject with
KeyFragment == "API key not valid"
NoRawError == [name |-> "", message |-> <<>>]
RawErrors ==
    { [name |-> "ApiError", message |-> <<"[400] ", KeyFragment, ". Please pass a valid API key.">>],
      [name |-> "TypeError", message |-> <<"fetch failed">>],
      [name |-> "AbortError", message |-> <<"The operation was aborted.">>] }

\* what an outbound generateContent call may end with
Outcomes ==
    { [ok |-> TRUE, text |-> t, error |-> NoRawError] : t \in RawTexts }
    \cup { [ok |-> FALSE, text |-> NoText, error |-> e] : e \in RawErrors }

\* no outcome: the event is not the settling of a call
NoOutcome == [ok |-> FALSE, text |-> NoText, error |-> NoRawError]

\* keys of a keydown event
Keys == {"Tab", "ArrowLeft", "a"}

(***************************************************************************)
(* Messages shown to the user.                                             *)
(***************************************************************************)
\* the error state: null, or a message
NoError == [null |-> TRUE, message |-> <<>>]
Err(m) == [null |-> FALSE, message |-> m]
MsgNoKeyEnv == <<"API_KEY environment variable is not set.">>
MsgInvalidKeyStandalone == <<"Invalid API Key. Please check your configuration.">>
MsgFailedStandalone == <<"Failed to get suggestions from Gemini.">>
MsgInvalidKeyEmbedded == <<"Invalid API Key. Please check your plugin settings.">>
MsgNotInitialized == <<"Gemini AI client not initialized.">>

VARIABLES
    \* ---- environment
    variant,            \* "standalone" | "embedded"
    apiKey,             \* whether an API key is configured
    client,             \* the copy of the standalone completion client that is linked:
                        \* "trim" (Editor.tsx:66-115) | "trimStart" (unnamed/part_000)
    timers,             \* pending setTimeout callbacks (the host's timer queue)
    requests,           \* outbound generateContent calls awaiting their outcome
    aborted,            \* AbortControllers (by number) whose signal is aborted
    \* ---- standalone: App.tsx
    code,               \* useState code
    inlineSuggestion,   \* useState inlineSuggestion
    isLoading,          \* useState isLoading
    error,              \* useState error
    requestAbortController, \* useRef: number of the current controller
    \* ---- embedded: main.js
    p_ai,               \* #ai is set
    p_abortController,  \* #abortController: controller number, 0 for null
    p_debounceTimeout,  \* #debounceTimeout: invocation of the last timer set, 0 for null
    p_isLoading,        \* #isLoading
    p_initialized,      \* init() has run
    p_registered,       \* the completion provider is registered with the host
    promises,           \* the promises returned by #provideCompletions, by invocation
    toasts,             \* toasts shown, in order
    alerts,             \* acode.alert calls
    \* ---- history
    triggers,           \* the triggers so far: text and burst of each
    fired,              \* triggers whose debounce timer has fired
    calls,              \* outbound calls made so far: trigger and snippet of each
    suggestionFrom,     \* snippet of the request whose response was published last
    acceptPhase,        \* "none" | "accepted" (no text edit since a Tab accept)
                        \* | "republished" (and a response was published since)
    destroyed,          \* whether destroy() has been called, after how many invocations,
                        \* and the invocations whose timer was pending and whose
                        \* request was outstanding then
    last                \* the last event

env == <<variant, apiKey, client, timers, requests, aborted>>
app == <<code, inlineSuggestion, isLoading, error, requestAbortController>>
plugin == <<p_ai, p_abortController, p_debounceTimeout, p_isLoading,
            p_initialized, p_registered, promises, toasts, alerts>>
history == <<triggers, fired, calls, suggestionFrom, acceptPhase, destroyed, last>>
vars == <<env, app, plugin, history>>

Standalone == variant = "standalone"
Embedded == variant = "embedded"


(***************************************************************************)
(* History helpers.                                                        *)
(***************************************************************************)
Event(op, id) ==
    [op |-> op, id |-> id, key |-> "", prevented |-> FALSE,
     superseded |-> FALSE, cancelled |-> FALSE, ok |-> FALSE, called |-> FALSE,
     outcome |-> NoOutcome]

\* A trigger joins the burst of the trigger before it unless that trigger's
\* debounce timer has already fired.
NextBurst ==
    IF triggers = <<>> THEN 1
    ELSE IF Len(triggers) \in fired THEN triggers[Len(triggers)].burst + 1
         ELSE triggers[Len(triggers)].burst

Trigger(text) == [text |-> text, burst |-> NextBurst]

(***************************************************************************)
(* Standalone editor: src/App.tsx                                          *)
(***************************************************************************)
SignalAborted(ctl) == ctl \in aborted

\* App.tsx:41-43 and 54: the controller of the effect being replaced is aborted
EffectAbort_Skipped(ab, ctl) == ab
EffectAbort(ab, ctl) == ab \cup {ctl}

\* App.tsx:53: the cleanup clears the timer its effect had set
EffectClearTimeout(ts, ctl) == { t \in ts : t.ctl # ctl }

\* App.tsx:39-56: React runs the effect after a render in which `code` changed:
\* the previous effect's cleanup, then the effect with the new `code`
useEffect(newCode) ==
    LET ctl == requestAbortController + 1 IN
    /\ aborted' = EffectAbort(aborted, requestAbortController)
    /\ requestAbortController' = ctl
    /\ timers' = EffectClearTimeout(timers, requestAbortController)
                    \cup {[ctl |-> ctl, text |-> newCode]}
    /\ triggers' = Append(triggers, Trigger(newCode))

\* App.tsx:60: setInlineSuggestion('') on manual typing
SuggestionAfterChange_Kept(suggestion) == suggestion
SuggestionAfterChange(suggestion) == <<>>

\* App.tsx:66: newCode = code + inlineSuggestion
AcceptedCode_Unchanged(text, suggestion) == text
AcceptedCode(text, suggestion) == text \o suggestion

\* App.tsx:68: setInlineSuggestion('') on accept
SuggestionAfterAccept_Kept(suggestion) == suggestion
SuggestionAfterAccept(suggestion) == <<>>

\* App.tsx:58-61 (a setCode to the same value re-renders nothing: no effect)
handleCodeChange(value) ==
    /\ Standalone
    /\ value # code => requestAbortController <= MaxCycles
    /\ code' = value
    /\ inlineSuggestion' = SuggestionAfterChange(inlineSuggestion)
    /\ IF value # code THEN useEffect(value)
       ELSE UNCHANGED <<aborted, requestAbortController, timers, triggers>>
    /\ acceptPhase' = "none"
    /\ last' = Event("change", requestAbortController')
    /\ UNCHANGED <<variant, apiKey, client, requests, isLoading, error, plugin,
                   fired, calls, suggestionFrom, destroyed>>

\* App.tsx:63-77 (the timeout of line 71 only moves the caret, which is not modelled)
handleKeyDown(key) ==
    /\ Standalone
    /\ IF key = "Tab" /\ inlineSuggestion # <<>>
       THEN /\ requestAbortController <= MaxCycles
            /\ code' = AcceptedCode(code, inlineSuggestion)
            /\ inlineSuggestion' = SuggestionAfterAccept(inlineSuggestion)
            /\ useEffect(AcceptedCode(code, inlineSuggestion))
            /\ acceptPhase' = "accepted"
            /\ last' = [Event("keydown", requestAbortController')
                           EXCEPT !.key = key, !.prevented = TRUE]
       ELSE /\ last' = [Event("keydown", requestAbortController) EXCEPT !.key = key]
            /\ UNCHANGED <<code, inlineSuggestion, aborted, requestAbortController,
                           timers, triggers, acceptPhase>>
    /\ UNCHANGED <<variant, apiKey, client, requests, isLoading, error, plugin,
                   fired, calls, suggestionFrom, destroyed>>

\* Editor.tsx:105  text ? text.trim() : ''
\* part_000:39     response.text?.trimStart() ?? ''
ResponseText(text) ==
    IF ~text.present THEN <<>>
    ELSE IF client = "trim" THEN Trim(text.text) ELSE TrimStart(text.text)

\* Editor.tsx:66-115 and unnamed/part_000:3-55, the two copies of the completion
\* client, which differ in the trimming only: what the promise of
\* getCodeSuggestions settles with, given the outcome of its generateContent call.
\* What the transport rejects with is an Error.
getCodeSuggestions_Unsafe(outcome) ==
    IF outcome.ok /\ outcome.text.present
    THEN [ok |-> TRUE, text |-> ResponseText(outcome.text), message |-> <<>>]
    ELSE [ok |-> FALSE, text |-> <<>>, message |-> MsgFailedStandalone]
getCodeSuggestions(outcome) ==
    IF outcome.ok
    THEN [ok |-> TRUE, text |-> ResponseText(outcome.text), message |-> <<>>]
    ELSE [ok |-> FALSE,
          text |-> <<>>,
          message |-> IF Includes(outcome.error.message, KeyFragment)
                      THEN MsgInvalidKeyStandalone ELSE MsgFailedStandalone]

\* App.tsx:48 and main.js:94: setTimeout callbacks run once
TimerFired_Repeats(ts, t) == ts
TimerFired(ts, t) == ts \ {t}

\* Editor.tsx:67 and part_000:4  if (!process.env.API_KEY)
MissingKeyStandalone_Ignored == FALSE
MissingKeyStandalone == ~apiKey

\* App.tsx:16: the length guard of fetchSuggestions
TooShortStandalone(currentCode) == Len(Trim(currentCode)) < MinLenStandalone

\* App.tsx:48-50 and 15-23: a debounce timer fires and calls fetchSuggestions with
\* the `code` and the signal of its effect, up to the await.  Without an API key
\* getCodeSuggestions rejects at once (Editor.tsx:67-69) and the catch and finally
\* of fetchSuggestions run before any other event.
DebounceFire ==
    /\ Standalone
    /\ \E t \in timers :
        /\ timers' = TimerFired(timers, t)
        /\ fired' = fired \cup {t.ctl}
        /\ IF TooShortStandalone(t.text)
           THEN /\ inlineSuggestion' = <<>>
                /\ last' = Event("timer", t.ctl)
                /\ UNCHANGED <<isLoading, error, requests, calls>>
           ELSE IF MissingKeyStandalone
           THEN /\ IF SignalAborted(t.ctl)
                   THEN /\ isLoading' = TRUE
                        /\ error' = NoError
                        /\ UNCHANGED inlineSuggestion
                   ELSE /\ isLoading' = FALSE
                        /\ error' = Err(MsgNoKeyEnv)
                        /\ inlineSuggestion' = <<>>
                /\ last' = Event("timer", t.ctl)
                /\ UNCHANGED <<requests, calls>>
           ELSE /\ isLoading' = TRUE
                /\ error' = NoError
                /\ requests' = requests \cup {[ctl |-> t.ctl, text |-> t.text]}
                /\ calls' = Append(calls, [trig |-> t.ctl, text |-> t.text])
                /\ last' = [Event("timer", t.ctl) EXCEPT !.called = TRUE]
                /\ UNCHANGED inlineSuggestion
    /\ UNCHANGED <<variant, apiKey, client, aborted, code, requestAbortController, plugin,
                   triggers, suggestionFrom, acceptPhase, destroyed>>

\* App.tsx:23-36: the call of request r settles and fetchSuggestions resumes
Settle ==
    /\ Standalone
    /\ \E r \in requests, outcome \in Outcomes :
        LET result == getCodeSuggestions(outcome) IN
        /\ requests' = requests \ {r}
        /\ IF SignalAborted(r.ctl)
           THEN UNCHANGED <<inlineSuggestion, error, isLoading, suggestionFrom, acceptPhase>>
           ELSE /\ inlineSuggestion' = IF result.ok THEN result.text ELSE <<>>
                /\ error' = IF result.ok THEN error ELSE Err(result.message)
                /\ isLoading' = FALSE
                /\ suggestionFrom' = r.text
                /\ acceptPhase' = IF acceptPhase = "accepted" /\ result.ok /\ result.text # <<>>
                                  THEN "republished" ELSE acceptPhase
        /\ last' = [Event("response", r.ctl)
                       EXCEPT !.superseded = (r.ctl # requestAbortController),
                              !.cancelled = SignalAborted(r.ctl),
                              !.ok = outcome.ok,
                              !.outcome = outcome]
    /\ UNCHANGED <<variant, apiKey, client, timers, aborted, code, requestAbortController,
                   plugin, triggers, fired, calls, destroyed>>

AppNext ==
    \/ \E value \in EditTexts : handleCodeChange(value)
    \/ \E key \in Keys : handleKeyDown(key)
    \/ DebounceFire
    \/ Settle

(***************************************************************************)
(* Embedded plugin: src/main.js                                            *)
(***************************************************************************)
Pending == [state |-> "pending", value |-> <<>>]
Resolved(list) == [state |-> "resolved", value |-> list]

\* a promise settles once: a later resolve() is ignored
Resolve(ps, inv, list) ==
    IF ps[inv].state = "pending" THEN [ps EXCEPT ![inv] = Resolved(list)] ELSE ps

\* main.js:124-129
Candidate(suggestion) ==
    [caption |-> Substring0(FirstLine(suggestion), CaptionLen) \o <<".", ".", ".">>,
     value |-> suggestion,
     score |-> CandidateScore,
     meta |-> "Gemini AI"]

Toast(kind, inv, message) == [kind |-> kind, inv |-> inv, message |-> message]

\* main.js:28-54
init ==
    /\ Embedded
    /\ ~p_initialized
    /\ p_initialized' = TRUE
    /\ IF ~apiKey
       THEN /\ alerts' = alerts + 1
            /\ UNCHANGED <<p_ai, p_registered, toasts>>
       ELSE /\ p_ai' = TRUE
            /\ p_registered' = TRUE
            /\ toasts' = toasts \cup {Toast("active", 0, <<"Gemini Autocomplete is active.">>)}
            /\ UNCHANGED alerts
    /\ last' = Event("init", 0)
    /\ UNCHANGED <<env, app, p_abortController, p_debounceTimeout, p_isLoading,
                   promises, triggers, fired, calls, suggestionFrom, acceptPhase,
                   destroyed>>

\* clearTimeout(this.#debounceTimeout), main.js:66 and 92
ClearTimeout_Skipped(ts, inv) == ts
ClearTimeout(ts, inv) == { t \in ts : t.inv # inv }

\* main.js:60-69; the host calls the unmount handler of a loaded plugin once
\* (main.js:212-214)
destroy ==
    /\ Embedded
    /\ p_initialized
    /\ aborted' = IF p_abortController # 0 THEN aborted \cup {p_abortController} ELSE aborted
    /\ timers' = ClearTimeout(timers, p_debounceTimeout)
    /\ ~destroyed.called
    /\ destroyed' = [called |-> TRUE,
                     at |-> Len(promises),
                     timers |-> { t.inv : t \in timers },
                     requests |-> { r.inv : r \in requests }]
    /\ last' = Event("destroy", 0)
    /\ UNCHANGED <<variant, apiKey, client, requests, app, plugin,
                   triggers, fired, calls, suggestionFrom, acceptPhase>>

\* main.js:88-94 and 146-147: the host invokes the provider; `text` is what the
\* session holds before the cursor position of this invocation.  The timer
\* callback reads the session when it fires (main.js:106-109); the host invokes
\* the provider on every edit, so what it reads then is the text of the
\* invocation whose timer fires.
provideCompletions(text) ==
    /\ Embedded
    /\ p_registered
    /\ \/ Len(promises) < MaxInvocations
       \/ /\ destroyed.called
          /\ Len(promises) < destroyed.at + MaxAfterDestroy
    /\ LET inv == Len(promises) + 1 IN
        /\ timers' = ClearTimeout(timers, p_debounceTimeout) \cup {[inv |-> inv, text |-> text]}
        /\ p_debounceTimeout' = inv
        /\ promises' = Append(promises, Pending)
        /\ triggers' = Append(triggers, Trigger(text))
        /\ last' = Event("invoke", inv)
    /\ UNCHANGED <<variant, apiKey, client, requests, aborted, app, p_ai, p_abortController,
                   p_isLoading, p_initialized, p_registered, toasts, alerts,
                   fired, calls, suggestionFrom, acceptPhase, destroyed>>

\* main.js:96-98: a request in flight is cancelled before a new one starts
AbortInFlight(ab, loading, ctl) == IF loading /\ ctl # 0 THEN ab \cup {ctl} ELSE ab

\* main.js:112: the length guard
TooShortEmbedded_NoTrim(codeBeforeCursor) == Len(codeBeforeCursor) < MinLenEmbedded
TooShortEmbedded(codeBeforeCursor) == Len(Trim(codeBeforeCursor)) < MinLenEmbedded

\* main.js:134-141: the toasts after the catch of an error
ErrorToasts(ts, inv, err) ==
    IF err.name # "AbortError"
    THEN ts \cup {Toast("error", inv,
                        <<"Gemini Error: ">> \o
                        (IF Includes(err.message, KeyFragment)
                         THEN MsgInvalidKeyEmbedded ELSE err.message))}
    ELSE ts

\* main.js:94-120 and 157-195: the debounce timer of an invocation fires, up to the
\* await of generateContent.  Without #ai, #getCodeSuggestion rejects at once and
\* the catch and finally run before any other event.
ProviderDebounceFire ==
    /\ Embedded
    /\ \E t \in timers :
        LET ctl == p_abortController + 1 IN
        /\ timers' = TimerFired(timers, t)
        /\ fired' = fired \cup {t.inv}
        /\ aborted' = AbortInFlight(aborted, p_isLoading, p_abortController)
        /\ p_abortController' = ctl
        /\ IF TooShortEmbedded(t.text)
           THEN /\ promises' = Resolve(promises, t.inv, <<>>)
                /\ p_isLoading' = FALSE
                /\ last' = Event("timer", t.inv)
                /\ UNCHANGED <<toasts, requests, calls>>
           ELSE IF ~p_ai
           THEN /\ toasts' = ErrorToasts(toasts \cup {Toast("thinking", t.inv, <<"Gemini is thinking...">>)},
                                         t.inv, [name |-> "Error", message |-> MsgNotInitialized])
                /\ promises' = Resolve(promises, t.inv, <<>>)
                /\ p_isLoading' = FALSE
                /\ last' = Event("timer", t.inv)
                /\ UNCHANGED <<requests, calls>>
           ELSE /\ toasts' = toasts \cup {Toast("thinking", t.inv, <<"Gemini is thinking...">>)}
                /\ requests' = requests \cup {[inv |-> t.inv, ctl |-> ctl, text |-> t.text]}
                /\ calls' = Append(calls, [trig |-> t.inv, text |-> t.text])
                /\ p_isLoading' = TRUE
                /\ last' = [Event("timer", t.inv) EXCEPT !.called = TRUE]
                /\ UNCHANGED promises
    /\ UNCHANGED <<variant, apiKey, client, app, p_ai, p_debounceTimeout, p_initialized,
                   p_registered, alerts, triggers, suggestionFrom, acceptPhase, destroyed>>

\* main.js:197-200: what #getCodeSuggestion returns for a response
getCodeSuggestion(text, signalAborted) ==
    IF signalAborted THEN <<>>
    ELSE IF text.present THEN text.text ELSE <<>>

\* main.js:123: the result is delivered unless the controller now held by the
\* plugin is aborted
Delivered(suggestion, own, current) ==
    suggestion # <<>> /\ ~SignalAborted(current)

\* main.js:120-145 and 197-200: the call of request r settles and the timer
\* callback resumes
ProviderSettle ==
    /\ Embedded
    /\ \E r \in requests, outcome \in Outcomes :
        /\ requests' = requests \ {r}
        /\ IF outcome.ok
           THEN LET suggestion == getCodeSuggestion(outcome.text, SignalAborted(r.ctl)) IN
                /\ promises' = Resolve(promises, r.inv,
                                       IF Delivered(suggestion, r.ctl, p_abortController)
                                       THEN <<Candidate(suggestion)>> ELSE <<>>)
                /\ UNCHANGED toasts
           ELSE /\ toasts' = ErrorToasts(toasts, r.inv, outcome.error)
                /\ promises' = Resolve(promises, r.inv, <<>>)
        /\ p_isLoading' = FALSE
        /\ last' = [Event("response", r.inv)
                       EXCEPT !.superseded = (r.ctl # p_abortController),
                              !.cancelled = SignalAborted(r.ctl),
                              !.ok = outcome.ok,
                              !.outcome = outcome]
    /\ UNCHANGED <<variant, apiKey, client, timers, aborted, app, p_ai, p_abortController,
                   p_debounceTimeout, p_initialized, p_registered, alerts,
                   triggers, fired, calls, suggestionFrom, acceptPhase, destroyed>>

\* main.js:37-40: the host invokes the registered provider
HostInvokes ==
    /\ Len(promises) < MaxInvocations
    /\ \E text \in InvokeTexts : provideCompletions(text)

\* the host still invokes the provider after destroy(), which leaves it
\* registered (main.js:60-69 calls no unregister)
HostInvokesAfterDestroy ==
    /\ destroyed.called
    /\ \E text \in InvokeTexts : provideCompletions(text)

PluginNext ==
    \/ init
    \/ destroy
    \/ HostInvokes
    \/ ProviderDebounceFire
    \/ ProviderSettle

(***************************************************************************)
(* Specifications.                                                         *)
(***************************************************************************)
\* the standalone editor after its first render and effect (App.tsx:8-13, 39-56);
\* the plugin after its constructor (main.js:14-22)
Init ==
    /\ variant \in {"standalone", "embedded"}
    /\ apiKey \in BOOLEAN
    /\ client \in (IF Standalone THEN {"trim", "trimStart"} ELSE {"trim"})
    /\ requests = {}
    /\ aborted = {}
    /\ code = InitialCode
    /\ inlineSuggestion = <<>>
    /\ isLoading = FALSE
    /\ error = NoError
    /\ requestAbortController = IF Standalone THEN 1 ELSE 0
    /\ timers = IF Standalone THEN {[ctl |-> 1, text |-> InitialCode]} ELSE {}
    /\ triggers = IF Standalone THEN <<[text |-> InitialCode, burst |-> 1]>> ELSE <<>>
    /\ p_ai = FALSE
    /\ p_abortController = 0
    /\ p_debounceTimeout = 0
    /\ p_isLoading = FALSE
    /\ p_initialized = FALSE
    /\ p_registered = FALSE
    /\ promises = <<>>
    /\ toasts = {}
    /\ alerts = 0
    /\ fired = {}
    /\ calls = <<>>
    /\ suggestionFrom = <<>>
    /\ acceptPhase = "none"
    /\ destroyed = [called |-> FALSE, at |-> 0, timers |-> {}, requests |-> {}]
    /\ last = Event("start", 0)

Next == AppNext \/ PluginNext

Spec == Init /\ [][Next]_vars

\* the plugin while it stays mounted (destroy() is never called)
MountedNext ==
    \/ AppNext
    \/ init
    \/ HostInvokes
    \/ ProviderDebounceFire
    \/ ProviderSettle

\* the plugin with invocations that follow destroy() beyond MaxInvocations
DestroyNext ==
    \/ Next
    \/ HostInvokesAfterDestroy

DestroySpec == Init /\ [][DestroyNext]_vars

\* A pending timer fires and an outbound call settles (the spec's section 5: a call
\* "is expected to eventually resolve or fail"); the user owes no further event.
Fairness ==
    /\ WF_vars(DebounceFire)
    /\ WF_vars(Settle)
    /\ WF_vars(ProviderDebounceFire)
    /\ WF_vars(ProviderSettle)

FairSpec == Init /\ [][Next]_vars /\ Fairness

MountedFairSpec == Init /\ [][MountedNext]_vars /\ Fairness

(***************************************************************************)
(* Claims.                                                                 *)
(***************************************************************************)
AppView == <<code, inlineSuggestion, error, isLoading>>

\* C1. Standalone editor: once the text has changed after a request was issued
\* (the effect has run again, so the request's controller is no longer the
\* current one), the step in which that request settles, with a response or with a
\* failure, changes none of code, inlineSuggestion, error and isLoading.
C1_SupersededSettleInvisible ==
    [][Standalone =>
         \A r \in requests :
            (r \notin requests' /\ r.ctl # requestAbortController)
               => UNCHANGED AppView]_vars

\* a superseded request has settled while the editor shows the state of a later cycle
C1_Witness ==
    /\ Standalone
    /\ last.op = "response"
    /\ last.superseded
    /\ last.id < requestAbortController
    /\ isLoading

\* C2. Embedded plugin: once a later cycle's timer has fired (the plugin holds a
\* newer controller), a request of an earlier cycle that is still outstanding
\* resolves its promise with the empty list.
C2_SupersededNeverDelivered ==
    [][Embedded =>
         \A r \in requests :
            (r \notin requests' /\ r.ctl # p_abortController)
               => promises'[r.inv].value = <<>>]_vars

ErrorToastsShown(ts) == { t \in ts : t.kind = "error" }

\* C3. Embedded plugin: a request whose controller has been aborted (by a later
\* timer fire or by destroy()) shows no 'Gemini Error' toast when its call settles,
\* with a response or with a failure, and resolves with the empty list.
C3_CancelledNeverSurfaced ==
    [][Embedded =>
         \A r \in requests :
            (r \notin requests' /\ SignalAborted(r.ctl))
               => /\ promises'[r.inv] = Resolved(<<>>)
                  /\ ErrorToastsShown(toasts') = ErrorToastsShown(toasts)]_vars

\* the most triggers a behaviour holds: the mount and MaxCycles text changes, or
\* MaxInvocations invocations
MaxTriggers == IF MaxCycles + 1 > MaxInvocations THEN MaxCycles + 1 ELSE MaxInvocations

\* the burst a trigger belongs to
BurstOf(k) == triggers[k].burst

\* the snapshot passes the minimum-length guard of the running front end
PassesGuard(text) ==
    Len(Trim(text)) >= (IF Standalone THEN MinLenStandalone ELSE MinLenEmbedded)

\* C4. Debounce coalescing, both variants, with an API key configured and the
\* plugin mounted: a burst of triggers, each arriving before the timer of the one
\* before it has fired, gets at most one outbound call, that call is made for the
\* last trigger of the burst and carries its text, and when that text passes the
\* length guard the call is eventually made (unless a further trigger arrives).
C4_DebounceCoalescing ==
    /\ [](\A i, j \in DOMAIN calls :
             BurstOf(calls[i].trig) = BurstOf(calls[j].trig) => i = j)
    /\ [](\A i \in DOMAIN calls :
             /\ calls[i].text = triggers[calls[i].trig].text
             /\ \A k \in DOMAIN triggers :
                   k > calls[i].trig => BurstOf(k) # BurstOf(calls[i].trig))
    /\ \A k \in 1..MaxTriggers :
          (apiKey /\ Len(triggers) = k /\ PassesGuard(triggers[k].text))
             ~> (Len(triggers) > k \/ \E i \in DOMAIN calls : calls[i].trig = k)

\* the one call of a burst of two triggers has been made, for the second
C4_Witness ==
    /\ Embedded
    /\ \E i \in DOMAIN calls :
          /\ calls[i].trig > 1
          /\ BurstOf(calls[i].trig - 1) = BurstOf(calls[i].trig)
          /\ calls[i].text # triggers[calls[i].trig - 1].text

\* the trigger whose timer a timer record is
TimerTrigger(t) == IF Standalone THEN t.ctl ELSE t.inv

\* C5. Length guard, both variants: when a debounce timer fires with a snapshot
\* whose trimmed length is below the minimum (3 standalone, 10 embedded), no
\* outbound call is made in that step, and afterwards inlineSuggestion is ''
\* (standalone) or the invocation's promise is resolved with the empty list
\* (embedded).
C5_LengthGuard ==
    [][\A t \in timers :
          ( /\ t \notin timers'
            /\ last'.op = "timer"
            /\ last'.id = TimerTrigger(t)
            /\ ~PassesGuard(t.text) )
          => /\ calls' = calls
             /\ requests' = requests
             /\ Standalone => inlineSuggestion' = <<>>
             /\ Embedded => promises'[t.inv] = Resolved(<<>>)]_vars

\* a timer has fired with a snapshot that is long enough only before trimming
C5_Witness ==
    /\ last.op = "timer"
    /\ ~last.called
    /\ Len(triggers[last.id].text) >= MinLenEmbedded
    /\ Embedded
    /\ promises[last.id] = Resolved(<<>>)

\* C6. Standalone editor: whenever inlineSuggestion is non-empty, code is the
\* snapshot of the request whose response published it; and every text edit
\* leaves inlineSuggestion empty.
C6_SuggestionMatchesBuffer ==
    /\ []((Standalone /\ inlineSuggestion # <<>>) => suggestionFrom = code)
    /\ [][last'.op = "change" => inlineSuggestion' = <<>>]_vars

\* a suggestion is shown for text the user typed
C6_Witness ==
    /\ Standalone
    /\ inlineSuggestion # <<>>
    /\ code \in EditTexts
    /\ suggestionFrom = code

TabPressed == last'.op = "keydown" /\ last'.key = "Tab"

\* C7. Standalone editor: Tab with a non-empty inlineSuggestion prevents the
\* default action, sets code to the previous code followed by inlineSuggestion and
\* empties inlineSuggestion; Tab with an empty inlineSuggestion changes neither
\* and does not prevent the default action.
C7_TabAccept ==
    [][TabPressed =>
         IF inlineSuggestion # <<>>
         THEN /\ last'.prevented
              /\ code' = code \o inlineSuggestion
              /\ inlineSuggestion' = <<>>
         ELSE /\ ~last'.prevented
              /\ UNCHANGED <<code, inlineSuggestion>>]_vars

\* a suggestion has just been accepted into text the user typed
C7_Witness ==
    /\ last.op = "keydown"
    /\ last.key = "Tab"
    /\ last.prevented
    /\ inlineSuggestion = <<>>
    /\ Len(code) > Len(suggestionFrom)
    /\ suggestionFrom \in EditTexts

\* C8 as stated. After a Tab accept and with no text edit since, a Tab press
\* leaves code unchanged, whatever timers fired and responses arrived in between.
C8_SecondTabNeverChangesCode ==
    [][(acceptPhase # "none" /\ TabPressed) => code' = code]_vars

\* C8 as amended. After a Tab accept, with no text edit since and no suggestion
\* published since, a Tab press leaves code and inlineSuggestion unchanged.
C8_SecondTabIdempotent ==
    [][(acceptPhase = "accepted" /\ TabPressed) => UNCHANGED <<code, inlineSuggestion>>]_vars

\* the second Tab has been pressed right after an accept
C8_Witness ==
    /\ acceptPhase = "accepted"
    /\ last.op = "keydown"
    /\ last.key = "Tab"
    /\ ~last.prevented
    /\ inlineSuggestion = <<>>

\* C9 as stated. Any keystroke other than Tab, and any text change, leaves
\* inlineSuggestion empty.
C9_AnyKeyClears ==
    [][(Standalone /\ (last'.op = "change" \/ code' # code
                        \/ (last'.op = "keydown" /\ last'.key # "Tab")))
          => inlineSuggestion' = <<>>]_vars

\* C9 as amended. A change event of the textarea and a programmatic change of
\* code leave inlineSuggestion empty; a keydown of a key other than Tab leaves
\* inlineSuggestion as it was.
C9_TextChangeClears ==
    [][Standalone =>
         /\ (last'.op = "change" \/ code' # code) => inlineSuggestion' = <<>>
         /\ (last'.op = "keydown" /\ last'.key # "Tab") => UNCHANGED inlineSuggestion]_vars

\* a key that changes no text was pressed and the suggestion is still shown
C9_Witness ==
    /\ Standalone
    /\ last.op = "keydown"
    /\ last.key = "ArrowLeft"
    /\ inlineSuggestion # <<>>

\* C10. Embedded plugin: every invocation's promise is eventually resolved, and
\* a resolved promise holds the empty list or one candidate with a non-empty value.
C10_EveryInvocationResolves ==
    /\ \A i \in 1..MaxInvocations :
          [](Len(promises) >= i
                => <>(Len(promises) >= i /\ promises[i].state = "resolved"))
    /\ [](\A i \in DOMAIN promises :
             /\ Len(promises[i].value) <= 1
             /\ \A c \in DOMAIN promises[i].value : promises[i].value[c].value # <<>>)

\* the requests whose call has not settled and whose signal is not aborted
LiveRequests == { r \in requests : ~SignalAborted(r.ctl) }

\* C11. Embedded plugin: at most one outbound request whose signal is not
\* aborted is outstanding at any time, and #isLoading is true whenever a request
\* is outstanding (so that the next timer fire aborts it before issuing its own).
C11_SingleLiveRequest ==
    Embedded =>
        /\ Cardinality(LiveRequests) <= 1
        /\ requests # {} => p_isLoading

\* the fragments of text a message is made of
Fragments(message) == { message[i] : i \in DOMAIN message }

\* the call of request r settles in this step, with a failure
SettlesFailed(r) ==
    /\ r \notin requests'
    /\ last'.op = "response"
    /\ ~last'.outcome.ok

\* the toast the plugin shows for an invalid API key
InvalidKeyToast(inv) == Toast("error", inv, <<"Gemini Error: ">> \o MsgInvalidKeyEmbedded)

\* C12. Both variants: when the call of a request that has not been superseded
\* fails with a provider error whose message contains 'API key not valid', the
\* message surfaced is the fixed one (standalone: error is 'Invalid API Key.
\* Please check your configuration.'; embedded: the toast 'Gemini Error: Invalid
\* API Key. Please check your plugin settings.') and holds none of the raw text.
C12_InvalidKeyMessage ==
    [][\A r \in requests :
          ( /\ SettlesFailed(r)
            /\ KeyFragment \in Fragments(last'.outcome.error.message)
            /\ ~SignalAborted(r.ctl) )
          => /\ Standalone =>
                  /\ error' = Err(MsgInvalidKeyStandalone)
                  /\ Fragments(error'.message)
                        \cap Fragments(last'.outcome.error.message) = {}
             /\ Embedded =>
                  /\ toasts' = toasts \cup {InvalidKeyToast(r.inv)}
                  /\ Fragments(InvalidKeyToast(r.inv).message)
                        \cap Fragments(last'.outcome.error.message) = {}]_vars

\* the fixed invalid-key message is on show, in the editor or as a toast, after
\* a call failed with the provider's invalid-key error
C12_Witness ==
    /\ last.op = "response"
    /\ KeyFragment \in Fragments(last.outcome.error.message)
    /\ \/ Standalone /\ error = Err(MsgInvalidKeyStandalone)
       \/ Embedded /\ InvalidKeyToast(last.id) \in toasts

\* C13. Both variants: a failure of a call that is not a credential rejection is
\* normalized before it is shown: the standalone error is the fixed generic
\* message, and whatever the plugin shows holds none of the raw text the
\* transport rejected with.
C13_FailuresNormalized ==
    [][\A r \in requests :
          ( /\ SettlesFailed(r)
            /\ KeyFragment \notin Fragments(last'.outcome.error.message)
            /\ ~SignalAborted(r.ctl) )
          => /\ Standalone => error' = Err(MsgFailedStandalone)
             /\ Embedded =>
                  \A t \in toasts' \ toasts :
                     Fragments(t.message)
                        \cap Fragments(last'.outcome.error.message) = {}]_vars

\* C14. No API key, both variants: no outbound call is ever made.  Embedded:
\* init() registers no completion provider and raises one alert, and nothing is
\* invoked or scheduled afterwards.  Standalone: a timer that fires with a text
\* that passes the length guard shows the client's failure message as the error
\* and leaves isLoading false.
C14_MissingKey ==
    /\ [](~apiKey =>
            /\ calls = <<>>
            /\ requests = {}
            /\ (Embedded /\ p_initialized) =>
                  /\ ~p_registered
                  /\ alerts = 1
                  /\ promises = <<>>
                  /\ timers = {})
    /\ [][\A t \in timers :
             ( /\ ~apiKey
               /\ Standalone
               /\ t \notin timers'
               /\ last'.op = "timer"
               /\ last'.id = t.ctl
               /\ PassesGuard(t.text) )
             => /\ error' = Err(MsgNoKeyEnv)
                /\ isLoading' = FALSE]_vars

\* without an API key a standalone attempt has just failed and its message is shown
C14_Witness ==
    /\ ~apiKey
    /\ Standalone
    /\ last.op = "timer"
    /\ error = Err(MsgNoKeyEnv)
    /\ ~isLoading
    /\ calls = <<>>

\* the caption of the claim: the first line, cut with an ellipsis only when it
\* is longer than CaptionLen
CaptionOf(suggestion) ==
    IF Len(FirstLine(suggestion)) <= CaptionLen
    THEN FirstLine(suggestion)
    ELSE Substring0(FirstLine(suggestion), CaptionLen) \o <<".", ".", ".">>

\* C15. Embedded plugin: the caption of a delivered candidate is the first line
\* of its value, unchanged when that line has at most 50 characters and otherwise
\* its first 50 characters followed by '...'.
C15_CaptionTruncation ==
    Embedded =>
        \A i \in DOMAIN promises :
            \A c \in DOMAIN promises[i].value :
                promises[i].value[c].caption = CaptionOf(promises[i].value[c].value)

\* the call of request r settles in this step with a response that has no text
\* (absent or null) or the empty text
SettlesWithoutText(r) ==
    /\ r \notin requests'
    /\ last'.op = "response"
    /\ last'.outcome.ok
    /\ (~last'.outcome.text.present \/ last'.outcome.text.text = <<>>)

\* C16. Both variants: a response whose text is absent, null or empty is an
\* empty suggestion and not an error.  Standalone, for the request the editor is
\* waiting for: inlineSuggestion is '', error is null and isLoading is false
\* afterwards.  Embedded: the invocation's promise is resolved with the empty
\* list and no error toast is added.
C16_EmptyResponse ==
    [][\A r \in requests :
          SettlesWithoutText(r)
          => /\ (Standalone /\ ~SignalAborted(r.ctl)) =>
                  /\ inlineSuggestion' = <<>>
                  /\ error' = NoError
                  /\ isLoading' = FALSE
             /\ Embedded =>
                  /\ promises'[r.inv] = Resolved(<<>>)
                  /\ ErrorToastsShown(toasts') = ErrorToastsShown(toasts)]_vars

\* a response without a text has just been handled, by the editor for its
\* current request or by the plugin
C16_Witness ==
    /\ last.op = "response"
    /\ last.outcome.ok
    /\ ~last.outcome.text.present
    /\ ~last.superseded
    /\ \/ Standalone /\ inlineSuggestion = <<>> /\ error = NoError /\ ~isLoading
       \/ Embedded /\ promises[last.id] = Resolved(<<>>)

\* C17. Standalone editor: a displayed error does not outlive the next debounce
\* cycle: after any debounce timer has fired, whatever the length of its text, the
\* error is null, unless the request of that very cycle has already failed (which,
\* at the fire itself, only the missing API key can cause).
C17_ErrorEphemeral ==
    [][\A t \in timers :
          ( /\ Standalone
            /\ t \notin timers'
            /\ last'.op = "timer"
            /\ last'.id = t.ctl )
          => \/ error' = NoError
             \/ /\ MissingKeyStandalone
                /\ PassesGuard(t.text)
                /\ error' = Err(MsgNoKeyEnv)]_vars

\* C18. Standalone editor: isLoading is never true in a state where no debounce
\* timer is pending and no request with an un-aborted signal is outstanding, so
\* that once every call has settled and the user has stopped editing it is false.
C18_LoadingTransient ==
    (Standalone /\ isLoading) => (timers # {} \/ LiveRequests # {})

\* C19. No retry, both variants: an outbound call is made only in the step in
\* which a debounce timer fires, one call at most, for that timer's trigger and
\* text; no trigger ever gets a second call; and the step in which a call settles,
\* with a failure, an empty text or anything else, makes no call and sets no timer.
C19_NoRetry ==
    /\ [](\A i, j \in DOMAIN calls : calls[i].trig = calls[j].trig => i = j)
    /\ [][calls' # calls
            => \E t \in timers :
                  /\ t \notin timers'
                  /\ last'.op = "timer"
                  /\ calls' = Append(calls, [trig |-> TimerTrigger(t), text |-> t.text])]_vars
    /\ [][last'.op = "response" => (calls' = calls /\ timers' = timers)]_vars

\* a call has failed or returned no text, and nothing is scheduled or outstanding
C19_Witness ==
    /\ last.op = "response"
    /\ (~last.outcome.ok \/ ~last.outcome.text.present)
    /\ ~last.superseded
    /\ Len(calls) = 1
    /\ timers = {}
    /\ requests = {}

\* the call of request r settles in this step with a response that has a text
SettlesWithText(r) ==
    /\ r \notin requests'
    /\ last'.op = "response"
    /\ last'.outcome.ok
    /\ last'.outcome.text.present

\* C20. Response trimming.  Standalone: the suggestion published for a response
\* is its text with leading and trailing whitespace removed.  Embedded: the
\* value of the candidate delivered for a response is its text with leading
\* whitespace removed.  A response of whitespace only gives an empty
\* inlineSuggestion and the empty list.
C20_ResponseTrimming ==
    [][\A r \in requests :
          SettlesWithText(r)
          => LET text == last'.outcome.text.text IN
             /\ (Standalone /\ ~SignalAborted(r.ctl)) => inlineSuggestion' = Trim(text)
             /\ (Embedded /\ promises[r.inv].state = "pending") =>
                  /\ \A c \in DOMAIN promises'[r.inv].value :
                        promises'[r.inv].value[c].value = TrimStart(text)
                  /\ Trim(text) = <<>> => promises'[r.inv].value = <<>>]_vars

\* Editor.tsx:32-41: the text of the backdrop, a span with code followed by a
\* span with inlineSuggestion
Backdrop_CodeOnly(c, suggestion) == c
Backdrop(c, suggestion) == c \o suggestion

\* Editor.tsx:43-45: the value of the textarea
TextareaValue(c) == c

\* C21. Standalone editor: what is displayed is code followed by
\* inlineSuggestion (code alone when no suggestion is pending) while the buffer
\* value, the textarea's, is code; and code is changed only by a change event of
\* the textarea or by a Tab accept: a timer fire and a response, successful or
\* failed, leave it as it was.
C21_DisplayedNotCommitted ==
    /\ [](Standalone =>
            /\ Len(Backdrop(code, inlineSuggestion)) = Len(code) + Len(inlineSuggestion)
            /\ SubSeq(Backdrop(code, inlineSuggestion), 1, Len(code)) = TextareaValue(code)
            /\ SubSeq(Backdrop(code, inlineSuggestion), Len(code) + 1,
                      Len(code) + Len(inlineSuggestion)) = inlineSuggestion
            /\ inlineSuggestion = <<>> => Backdrop(code, inlineSuggestion) = code)
    /\ [][Standalone =>
            /\ code' # code =>
                  \/ last'.op = "change"
                  \/ /\ last'.op = "keydown"
                     /\ last'.key = "Tab"
                     /\ inlineSuggestion # <<>>
                     /\ code' = code \o inlineSuggestion
            /\ last'.op \in {"timer", "response"} => code' = code]_vars

\* a response has published a suggestion, which is displayed after the code
\* without being part of it
C21_Witness ==
    /\ Standalone
    /\ last.op = "response"
    /\ inlineSuggestion # <<>>
    /\ Backdrop(code, inlineSuggestion) # TextareaValue(code)

\* C22. Standalone editor: at most one of the three indicators is active: a
\* non-empty inlineSuggestion, isLoading, a non-null error.
C22_OneIndicator ==
    Standalone =>
        /\ ~(inlineSuggestion # <<>> /\ isLoading)
        /\ ~(inlineSuggestion # <<>> /\ error # NoError)
        /\ ~(isLoading /\ error # NoError)

\* the request of a second cycle has failed: its error is shown alone, whatever
\* the first cycle had published
C22_Witness ==
    /\ Standalone
    /\ last.op = "response"
    /\ ~last.superseded
    /\ Len(calls) = 2
    /\ error # NoError
    /\ ~isLoading
    /\ inlineSuggestion = <<>>

\* C23. Standalone editor: a Tab accept is a text change: it aborts the current
\* controller and sets the one debounce timer of a new cycle, whose text is the
\* code followed by the accepted suggestion; and unless the text changes again
\* first, that timer fires and one outbound call, no more, is made with the
\* combined text.
C23_AcceptStartsCycle ==
    /\ [][(Standalone /\ TabPressed /\ inlineSuggestion # <<>>)
            => /\ requestAbortController \in aborted'
               /\ requestAbortController' # requestAbortController
               /\ timers' = {[ctl |-> requestAbortController',
                              text |-> code \o inlineSuggestion]}]_vars
    /\ \A k \in 1..MaxTriggers :
          []((Standalone /\ last.op = "keydown" /\ last.prevented /\ last.id = k)
                => <>(\/ requestAbortController # k
                      \/ \E i \in DOMAIN calls :
                            /\ calls[i].trig = k
                            /\ Len(triggers) >= k
                            /\ calls[i].text = triggers[k].text
                            /\ calls[i].text = code))
    /\ [](\A k \in 1..MaxTriggers :
             Cardinality({ i \in DOMAIN calls : calls[i].trig = k }) <= 1)

\* the timer set by a Tab accept has fired and the call carries the combined text
C23_Witness ==
    /\ Standalone
    /\ acceptPhase = "accepted"
    /\ last.op = "timer"
    /\ last.called
    /\ last.id = requestAbortController
    /\ calls[Len(calls)].trig = requestAbortController
    /\ calls[Len(calls)].text = code
    /\ Len(code) > Len(suggestionFrom)

\* C24. Embedded plugin: after destroy(), whatever happens later, further
\* invocations included, a timer that was pending at the call has not fired and
\* no outbound call was made for it, and the promise of a request that was
\* outstanding at the call is not resolved with a candidate.
C24_DestroyCancels ==
    Embedded =>
        /\ \A i \in destroyed.timers :
              /\ i \notin fired
              /\ \A c \in DOMAIN calls : calls[c].trig # i
        /\ \A i \in destroyed.requests : promises[i].value = <<>>

=============================================================================
